---- MODULE Spec2Model ----
(***************************************************************************)
(* Press classifier of the Input class (single / double / long press and   *)
(* repeat-fire), modelled from the current Input source.  Wall-clock time  *)
(* is the variable now; Date.now() reads it.  setTimeout timers are kept   *)
(* in the set timers and fire at or after their due time.                  *)
(***************************************************************************)
EXTENDS Integers, Sequences, FiniteSets

VARIABLES
    now,            \* Date.now()
    opts,           \* this.opts (the option flags the classifier reads)
    click,          \* this._click
    removed,        \* this._removed
    repeat_timer,   \* this._repeat_timer: the handle last returned by setTimeout
    timers,         \* armed setTimeout timers: records [id, due]
    raf,            \* a requestAnimationFrame callback of the check loop is pending
    fired,          \* history: what the last step passed to opts.fire, in order
    g,              \* history: the current gesture (see Track)
    held,           \* environment: the discrete keys physically held down
    stack,          \* Undo: this._stack
    current_index,  \* Undo: this._current_index, a number or a string
    undo_opts,      \* Undo: the opts the page passes to new Undo(opts)
    localStorage,   \* the items undo_stack and undo_stack_position
    returned,       \* history: what the last call on the Undo instance returned
    twin,           \* history: the Undo instance as it is had it never been
                    \* rebuilt from localStorage, and what its last call returned
    date,           \* Serial: Date.now() on the page of the Serial instance
    serial,         \* Serial: outputDone, lastWrite, the armed retry timers and
                    \* the lines written to the output stream, with their times
    calls,          \* history: the lines passed to send() while connected, in
                    \* call order
    send_ret,       \* history: what the last send() returned
    lbt,            \* LineBreakTransformer: _split_chars, container, the lines
                    \* enqueued so far
    text,           \* environment: the text the stream delivers
    rest,           \* environment: the part of text not yet delivered
    chunks,         \* history: the chunks delivered so far, in order
    flushed,        \* environment: the stream has closed and flush() has run
    ble,            \* BLE: options.msg_send_chunk_size, _msg_send_queue and the
                    \* characteristic write in progress
    ble_log,        \* history: the chunks written to the characteristic, each
                    \* with the message it belongs to
    ble_sent,       \* history: the messages passed to _sendNextChunk by send()
    ble_failed      \* history: a characteristic write has been rejected

\* the variables of the Undo instance and of the Input instance
undoVars == <<stack, current_index, undo_opts, localStorage, returned, twin>>
inputVars == <<now, opts, click, removed, repeat_timer, timers, raf, fired, g, held>>

\* the variables of the Serial instance, of its LineBreakTransformer and of
\* the BLE instance
serialVars == <<date, serial, calls, send_ret>>
lineVars == <<lbt, text, rest, chunks, flushed>>
bleVars == <<ble, ble_log, ble_sent, ble_failed>>
commsVars == <<serialVars, lineVars, bleVars>>

vars == <<inputVars, undoVars, commsVars>>

\* ---------------------------------------------------------------- constants

long_press_threshold == 500
double_press_threshold == 100
repeat_init_delay == 600
repeat_interval == 130

\* ---------------------------------------------------------------- bounds

MaxTime == 730        \* the clock stops advancing here
MaxTimers == 2        \* down() is not called with this many timers armed
MaxCount == 2         \* events counted per gesture and type
MaxStack == 4         \* save() is not called with this many entries in the stack

Deltas == {100, 501}

NoTimer == 0          \* _repeat_timer = null

\* ---------------------------------------------------------------- helpers

\* The handle setTimeout returns: one of no armed timer.  Every call site
\* stores the handle in _repeat_timer at once, so a handle a cleared or expired
\* timer had can stand for a new one.
FreshId(ts) ==
    CHOOSE i \in 1..(Cardinality(ts) + 1) :
        /\ \A t \in ts : t.id # i
        /\ \A j \in 1..(i - 1) : \E t \in ts : t.id = j

\* setTimeout(cb, delay) called at time t
setTimeout(ts, t, delay) == ts \cup {[id |-> FreshId(ts), due |-> t + delay]}

\* clearTimeout(handle): a handle of no armed timer is ignored
clearTimeout(ts, h) == {t \in ts : t.id # h}

\* this._click.long_press_enabled as _release reads it: _click has no such
\* field and nothing assigns one, so the read gives undefined (falsy).
click_long_press_enabled == FALSE

\* ---------------------------------------------------------------- the classifier

\* _press()
press(c, t) == [c EXCEPT !.last_press = t, !.pressed = TRUE]

\* _release as it would be without "half_double_press_fired = false" after
\* the double press is fired
release_keeps_pending(c, o, t, do_checks) ==
    LET c1 == [c EXCEPT !.pressed = FALSE] IN
    IF ~do_checks
    THEN [click |-> c1, fired |-> <<>>]
    ELSE IF ~o.double_press_enabled
    THEN [click |-> [c1 EXCEPT !.long_press_fired = FALSE],
          fired |-> IF ~c1.long_press_fired
                       /\ ~(o.repeat_enabled /\ o.repeat_fire_immediate)
                    THEN <<"single">> ELSE <<>>]
    ELSE IF c1.half_double_press_fired
         THEN [click |-> [c1 EXCEPT !.long_press_fired = FALSE],
               fired |-> <<"double">>]
         ELSE [click |-> [c1 EXCEPT !.half_double_press = t,
                                    !.half_double_press_fired = TRUE,
                                    !.long_press_fired = FALSE],
               fired |-> <<>>]

\* _release(do_checks): the click state after it, and what it passes to fire
release(c, o, t, do_checks) ==
    LET c1 == [c EXCEPT !.pressed = FALSE] IN
    IF ~do_checks
    THEN [click |-> c1, fired |-> <<>>]
    ELSE IF ~o.double_press_enabled
    THEN [click |-> [c1 EXCEPT !.long_press_fired = FALSE],
          fired |-> IF ~c1.long_press_fired
                       /\ ~(o.repeat_enabled /\ o.repeat_fire_immediate)
                    THEN <<"single">> ELSE <<>>]
    ELSE IF ~click_long_press_enabled
            \/ (click_long_press_enabled /\ ~c1.long_press_fired)
    THEN IF c1.half_double_press_fired
         THEN [click |-> [c1 EXCEPT !.half_double_press_fired = FALSE,
                                    !.long_press_fired = FALSE],
               fired |-> <<"double">>]
         ELSE [click |-> [c1 EXCEPT !.half_double_press = t,
                                    !.half_double_press_fired = TRUE,
                                    !.long_press_fired = FALSE],
               fired |-> <<>>]
    ELSE [click |-> [c1 EXCEPT !.long_press_fired = FALSE], fired |-> <<>>]

\* the give-up check as it would be if it compared against the time of the
\* release alone, without adding double_press_threshold
give_up_check_no_threshold(c, o, t) ==
    IF /\ ~c.pressed
       /\ o.double_press_enabled
       /\ c.half_double_press_fired
       /\ t > c.half_double_press
    THEN [click |-> [c EXCEPT !.half_double_press_fired = FALSE], fired |-> <<"single">>]
    ELSE [click |-> c, fired |-> <<>>]

\* the give-up check as it would be without "half_double_press_fired = false"
give_up_check_keeps_pending(c, o, t) ==
    IF /\ ~c.pressed
       /\ o.double_press_enabled
       /\ c.half_double_press_fired
       /\ t > c.half_double_press + double_press_threshold
    THEN [click |-> c, fired |-> <<"single">>]
    ELSE [click |-> c, fired |-> <<>>]

\* the give-up check as it would be if it gave up at the threshold already
give_up_check_at_threshold(c, o, t) ==
    IF /\ ~c.pressed
       /\ o.double_press_enabled
       /\ c.half_double_press_fired
       /\ t >= c.half_double_press + double_press_threshold
    THEN [click |-> [c EXCEPT !.half_double_press_fired = FALSE], fired |-> <<"single">>]
    ELSE [click |-> c, fired |-> <<>>]

\* _press_check_loop(), first check: give up waiting for the second press
give_up_check(c, o, t) ==
    IF /\ ~c.pressed
       /\ o.double_press_enabled
       /\ c.half_double_press_fired
       /\ t > c.half_double_press + double_press_threshold
    THEN [click |-> [c EXCEPT !.half_double_press_fired = FALSE], fired |-> <<"single">>]
    ELSE [click |-> c, fired |-> <<>>]

\* the long press check as it would be without the test of long_press_fired
long_press_check_refires(c, o, t) ==
    IF /\ c.pressed
       /\ t > c.last_press + long_press_threshold
       /\ o.long_press_enabled
    THEN [click |-> [c EXCEPT !.long_press_fired = TRUE],
          fired |-> IF ~(o.repeat_enabled /\ o.repeat_override_long)
                    THEN <<"long">> ELSE <<>>]
    ELSE [click |-> c, fired |-> <<>>]

\* the long press check as it would be without "long_press_fired = true"
long_press_check_keeps_flag(c, o, t) ==
    IF /\ c.pressed
       /\ t > c.last_press + long_press_threshold
       /\ ~c.long_press_fired
       /\ o.long_press_enabled
    THEN [click |-> c,
          fired |-> IF ~(o.repeat_enabled /\ o.repeat_override_long)
                    THEN <<"long">> ELSE <<>>]
    ELSE [click |-> c, fired |-> <<>>]

\* _press_check_loop(), second check: the long press
long_press_check(c, o, t) ==
    IF /\ c.pressed
       /\ t > c.last_press + long_press_threshold
       /\ ~c.long_press_fired
       /\ o.long_press_enabled
    THEN [click |-> [c EXCEPT !.long_press_fired = TRUE],
          fired |-> IF ~(o.repeat_enabled /\ o.repeat_override_long)
                    THEN <<"long">> ELSE <<>>]
    ELSE [click |-> c, fired |-> <<>>]

\* _press_check_loop(): both checks, in order
press_check_loop(c, o, t) ==
    LET a == give_up_check(c, o, t)
        b == long_press_check(a.click, o, t)
    IN [click |-> b.click, fired |-> a.fired \o b.fired]

\* ---------------------------------------------------------------- history

Has(evs, e) == \E i \in DOMAIN evs : evs[i] = e
Bump(n, evs, e) == IF Has(evs, e) /\ n < MaxCount THEN n + 1 ELSE n

\* the gesture's event counts after the classifier passed evs to fire
Count(gg, evs) ==
    [gg EXCEPT !.single = Bump(gg.single, evs, "single"),
               !.double = Bump(gg.double, evs, "double"),
               !.long = Bump(gg.long, evs, "long")]

\* The calls of a gesture are recorded while they follow the pattern down, up,
\* down, up ("d", "u"); any other order of calls, an abandoned release ("a") or
\* a longer gesture is recorded as Other.
Pattern == <<"d", "u", "d", "u">>
Other == <<"x">>
Call(ops, op) ==
    IF /\ ops # Other
       /\ Len(ops) < Len(Pattern)
       /\ Pattern[Len(ops) + 1] = op
    THEN Append(ops, op)
    ELSE Other

\* A gesture begins at a down() that finds no half double press pending and
\* runs until the next such down().  g records its down ("d"), up ("u") and
\* abandoned-release ("a") calls, the events the classifier emitted during it,
\* and whether repeat mode was on or a repeat timer armed at any time in it.
NewGesture == [ops |-> <<>>, single |-> 0, double |-> 0, long |-> 0, repeat |-> FALSE]

Track(gg, op, evs, o2, ts2) ==
    LET base == IF op = "d" /\ ~click.half_double_press_fired THEN NewGesture ELSE gg
        called == IF op \in {"d", "u", "a"}
                  THEN [base EXCEPT !.ops = Call(base.ops, op)] ELSE base
        counted == Count(called, evs)
    IN [counted EXCEPT !.repeat = counted.repeat \/ o2.repeat_enabled \/ ts2 # {}]

\* ---------------------------------------------------------------- Undo

\* the objects saved in the history
Data == {"a", "b"}

\* A JavaScript number k, and the string of the decimal digits of k
Num(k) == [type |-> "number", n |-> k]
Str(k) == [type |-> "string", n |-> k]

\* the number a value converts to, as in v < k, v > k, v++ and v--
ToNumber(v) == v.n

\* the string setItem stores for a value
String(v) == Str(v.n)

\* v + 1: addition for a number; for a string the digit 1 is appended
PlusOne(v) ==
    IF v.type = "number"
    THEN Num(v.n + 1)
    ELSE Str(IF v.n >= 0 THEN 10 * v.n + 1 ELSE 10 * v.n - 1)

\* v++ and v-- convert to a number first
Incr(v) == Num(ToNumber(v) + 1)
Decr(v) == Num(ToNumber(v) - 1)

\* array.splice(start): removes everything from start on; a negative start
\* counts from the end
splice(a, start) ==
    LET k == ToNumber(start)
        from == IF k < 0
                THEN (IF Len(a) + k < 0 THEN 0 ELSE Len(a) + k)
                ELSE (IF k > Len(a) THEN Len(a) ELSE k)
    IN SubSeq(a, 1, from)

\* array[i] and array[i] = x (arrays count from 0, sequences from 1)
At(a, i) ==
    IF ToNumber(i) + 1 \in DOMAIN a THEN a[ToNumber(i) + 1] ELSE "undefined"
SetAt(a, i, x) ==
    IF ToNumber(i) + 1 \in DOMAIN a
    THEN [a EXCEPT ![ToNumber(i) + 1] = x]
    ELSE IF ToNumber(i) = Len(a) THEN Append(a, x) ELSE a

\* JSON.stringify and JSON.parse of a saved object or of the stack
JSONstringify(x) == [json |-> x]
JSONparse(t) == t.json

\* localStorage with neither item set
EmptyStorage ==
    [has_items |-> FALSE,
     undo_stack |-> JSONstringify(<<>>),
     undo_stack_position |-> Str(-1)]

\* _save_to_storage()
save_to_storage(u) ==
    IF u.opts.save_to_storage
    THEN [u EXCEPT !.localStorage =
                [has_items |-> TRUE,
                 undo_stack |-> JSONstringify(u.stack),
                 undo_stack_position |-> String(u.current_index)]]
    ELSE u

\* retrieve()
retrieve(u) ==
    LET u1 == save_to_storage(u)
    IN [u |-> u1, ret |-> At(u1.stack, u1.current_index)]

\* save(data) as it would be without "this._current_index++"
save_without_increment(u, data) ==
    LET u1 == IF ToNumber(u.current_index) < Len(u.stack) - 1
              THEN [u EXCEPT !.stack = splice(@, PlusOne(u.current_index))]
              ELSE u
        u2 == [u1 EXCEPT !.stack = Append(@, JSONparse(JSONstringify(data)))]
    IN [u |-> save_to_storage(u2), ret |-> "undefined"]

\* save(data)
save(u, data) ==
    LET u1 == IF ToNumber(u.current_index) < Len(u.stack) - 1
              THEN [u EXCEPT !.stack = splice(@, PlusOne(u.current_index))]
              ELSE u
        u2 == [u1 EXCEPT !.stack = Append(@, JSONparse(JSONstringify(data))),
                         !.current_index = Incr(@)]
    IN [u |-> save_to_storage(u2), ret |-> "undefined"]

\* undo() as it would be if it stepped back from the first entry too
undo_from_first(u) ==
    IF ToNumber(u.current_index) >= 0
    THEN retrieve([u EXCEPT !.current_index = Decr(@)])
    ELSE [u |-> u, ret |-> "false"]

\* undo()
undo(u) ==
    IF ToNumber(u.current_index) > 0
    THEN retrieve([u EXCEPT !.current_index = Decr(@)])
    ELSE [u |-> u, ret |-> "false"]

\* undoundo()
undoundo(u) ==
    IF ToNumber(u.current_index) < Len(u.stack) - 1
    THEN retrieve([u EXCEPT !.current_index = Incr(@)])
    ELSE [u |-> u, ret |-> "false"]

\* overwrite(data)
overwrite(u, data) ==
    LET u1 == IF ToNumber(u.current_index) < 0 THEN save(u, data).u ELSE u
        u2 == [u1 EXCEPT !.stack = SetAt(@, u1.current_index,
                                         JSONparse(JSONstringify(data)))]
    IN [u |-> save_to_storage(u2), ret |-> "undefined"]

\* has_undo() as it would be if it offered undo at the first entry
has_undo_at_first(u) ==
    [undo |-> ToNumber(u.current_index) >= 0 /\ Len(u.stack) > 0,
     undoundo |-> /\ ToNumber(u.current_index) < Len(u.stack) - 1
                  /\ Len(u.stack) > 0]

\* has_undo()
has_undo(u) ==
    [undo |-> ToNumber(u.current_index) > 0 /\ Len(u.stack) > 0,
     undoundo |-> /\ ToNumber(u.current_index) < Len(u.stack) - 1
                  /\ Len(u.stack) > 0]

\* new Undo(o) with the localStorage ls
constructor(o, ls) ==
    LET provided_stack == IF o.has_stack THEN o.stack ELSE <<>>
        provided_index == IF o.has_index /\ o.current_index # 0
                          THEN Num(o.current_index) ELSE Num(-1)
        from_storage == o.save_to_storage /\ ls.has_items
    IN [stack |-> IF from_storage THEN JSONparse(ls.undo_stack)
                  ELSE provided_stack,
        current_index |-> IF from_storage THEN ls.undo_stack_position
                          ELSE provided_index,
        opts |-> o,
        localStorage |-> ls]

\* new Undo({}): the default options
DefaultUndoOpts ==
    [save_to_storage |-> TRUE, has_stack |-> FALSE, stack |-> <<>>,
     has_index |-> FALSE, current_index |-> 0]

\* The opts a page passes: save_to_storage as it likes, and either no history
\* or a history to restore (opts.stack, opts._current_index), the position an
\* index of the stack
UndoOpts ==
    {[save_to_storage |-> b, has_stack |-> FALSE, stack |-> <<>>,
      has_index |-> FALSE, current_index |-> 0] : b \in BOOLEAN}
    \cup
    {o \in [save_to_storage : BOOLEAN,
            has_stack : {TRUE},
            stack : UNION {[1..len -> Data] : len \in 1..2},
            has_index : {TRUE},
            current_index : 0..1] : o.current_index < Len(o.stack)}

\* ---------------------------------------------------------------- Serial

minimumWriteInterval == 100

MaxDate == 360        \* the clock of the Serial page stops advancing here
MaxLines == 3         \* send() is not called after this many lines were taken

SerialDeltas == {50, 51}

\* new Serial(options), not connected yet: outputDone is undefined and
\* lastWrite is 0
NewSerial ==
    [outputDone |-> FALSE, lastWrite |-> 0, timers |-> {}, written |-> <<>>]

\* send(line) as it would be without the test of the time since lastWrite
send_unspaced(s, line, t) ==
    IF s.outputDone
    THEN [serial |-> [s EXCEPT !.written = Append(@, [line |-> line, at |-> t]),
                               !.lastWrite = t],
          ret |-> "line"]
    ELSE [serial |-> s, ret |-> "undefined"]

\* send(line) called when Date.now() is t: the line is written and returned,
\* or a timer is armed that calls send(line) again and a promise is returned,
\* or, with no output stream, nothing happens and undefined is returned
send(s, line, t) ==
    IF s.outputDone
    THEN IF t > s.lastWrite + minimumWriteInterval
         THEN [serial |-> [s EXCEPT !.written = Append(@, [line |-> line, at |-> t]),
                                    !.lastWrite = t],
               ret |-> "line"]
         ELSE [serial |-> [s EXCEPT !.timers = @ \cup
                               {[line |-> line, due |-> t + minimumWriteInterval]}],
               ret |-> "promise"]
    ELSE [serial |-> s, ret |-> "undefined"]

\* ---------------------------------------------------------------- LineBreakTransformer

MaxText == 4          \* the stream delivers texts of at most this many characters

Chars == {"a", "\r", "\n"}

SplitChars == {<<"\r", "\n">>, <<"\n">>, <<"a", "a">>}

Texts == UNION {[1..len -> Chars] : len \in 0..MaxText}

\* The positions of s at which sep begins
Occurrences(s, sep) ==
    {i \in 1..(Len(s) - Len(sep) + 1) : SubSeq(s, i, i + Len(sep) - 1) = sep}

Least(S) == CHOOSE i \in S : \A j \in S : i <= j

\* String.prototype.split(sep) for a separator that is not empty
RECURSIVE split(_, _)
split(s, sep) ==
    IF Occurrences(s, sep) = {}
    THEN <<s>>
    ELSE LET i == Least(Occurrences(s, sep)) IN
         <<SubSeq(s, 1, i - 1)>> \o split(SubSeq(s, i + Len(sep), Len(s)), sep)

\* Array.prototype.pop(): the last element, and the array without it
Last(a) == a[Len(a)]
Front(a) == SubSeq(a, 1, Len(a) - 1)

\* new LineBreakTransformer(split_chars)
NewLineBreakTransformer(split_chars) ==
    [split_chars |-> split_chars, container |-> <<>>, enqueued |-> <<>>]

\* transform(chunk, controller) as it would be if the container were replaced
\* by the chunk
transform_forgets_container(t, chunk) ==
    LET lines == split(chunk, t.split_chars) IN
    [t EXCEPT !.container = Last(lines),
              !.enqueued = @ \o Front(lines)]

\* transform(chunk, controller)
transform(t, chunk) ==
    LET lines == split(t.container \o chunk, t.split_chars) IN
    [t EXCEPT !.container = Last(lines),
              !.enqueued = @ \o Front(lines)]

\* flush(controller)
flush(t) == [t EXCEPT !.enqueued = Append(@, t.container)]

\* ---------------------------------------------------------------- BLE

msg_send_chunk_size == 20

MaxLen == 7           \* messages of every length up to this one are sent
MaxMsgs == 2          \* send() is not called after this many messages

ChunkSizes == {3, msg_send_chunk_size}

Lengths ==
    0..MaxLen \cup {msg_send_chunk_size, msg_send_chunk_size + 1,
                    2 * msg_send_chunk_size}

\* The bytes of the k-th message, of length len
Bytes(k, len) == [i \in 1..len |-> (50 * k + i) % 256]

\* Uint8Array.prototype.slice(start, end) and slice(start)
slice(a, start, end) == SubSeq(a, start + 1, IF end < Len(a) THEN end ELSE Len(a))
sliceFrom(a, start) == SubSeq(a, start + 1, Len(a))

\* new BLEComms(options), connected.  An entry of the queue or of writing is
\* a value_array, tagged with the number of the message it is part of.
NewBLE(size) ==
    [msg_send_chunk_size |-> size, queue |-> <<>>, writing |-> <<>>]

\* _sendNextChunk(value_array) up to its await: writeValue(chunk) begins the
\* write, or is rejected because a write is in progress, and then the catch
\* block queues value_array
sendNextChunk(b, e) ==
    IF b.writing # <<>>
    THEN [b EXCEPT !.queue = Append(@, e)]
    ELSE [b EXCEPT !.writing = <<e>>]

\* The chunk of the write in progress
chunk(b) == slice(b.writing[1].value_array, 0, b.msg_send_chunk_size)

\* _sendNextChunk after its await as it would be if it went on whenever
\* value_array is at least one chunk long
sendNextChunk_resumes_inclusive(b) ==
    LET e == b.writing[1]
        idle == [b EXCEPT !.writing = <<>>]
    IN  IF Len(e.value_array) >= b.msg_send_chunk_size
        THEN sendNextChunk(idle, [e EXCEPT !.value_array =
                                      sliceFrom(@, b.msg_send_chunk_size)])
        ELSE IF Len(idle.queue) > 0
             THEN sendNextChunk([idle EXCEPT !.queue = Tail(@)], Head(idle.queue))
             ELSE idle

\* _sendNextChunk after its await, the write having succeeded: the rest of
\* value_array is sent, or else the next queued value_array
sendNextChunk_resumes(b) ==
    LET e == b.writing[1]
        idle == [b EXCEPT !.writing = <<>>]
    IN  IF Len(e.value_array) > b.msg_send_chunk_size
        THEN sendNextChunk(idle, [e EXCEPT !.value_array =
                                      sliceFrom(@, b.msg_send_chunk_size)])
        ELSE IF Len(idle.queue) > 0
             THEN sendNextChunk([idle EXCEPT !.queue = Tail(@)], Head(idle.queue))
             ELSE idle

\* _sendNextChunk after its await, the write in progress having been rejected
sendNextChunk_catches(b) ==
    [b EXCEPT !.writing = <<>>, !.queue = Append(@, b.writing[1])]

\* ---------------------------------------------------------------- construction of the page

\* new Serial(), its transformer with the default line ending and no text
\* delivered, new BLEComms() with the default chunk size
SerialStarts ==
    /\ date = minimumWriteInterval + 1
    /\ serial = NewSerial
    /\ calls = <<>>
    /\ send_ret = "undefined"

TransformerStarts(t, split_chars) ==
    /\ lbt = NewLineBreakTransformer(split_chars)
    /\ text = t
    /\ rest = t
    /\ chunks = <<>>
    /\ flushed = FALSE

BLEStarts(size) ==
    /\ ble = NewBLE(size)
    /\ ble_log = <<>>
    /\ ble_sent = <<>>
    /\ ble_failed = FALSE

CommsStart ==
    /\ SerialStarts
    /\ TransformerStarts(<<>>, <<"\r", "\n">>)
    /\ BLEStarts(msg_send_chunk_size)

\* ---------------------------------------------------------------- state machine

\* new Input(opts): the caller chooses the option flags; _click, _removed and
\* _repeat_timer take their field initialisers; the constructor requests the
\* first animation frame.
InitInput ==
    /\ now = 0
    /\ opts \in [long_press_enabled : BOOLEAN,
                 double_press_enabled : BOOLEAN,
                 repeat_enabled : BOOLEAN,
                 repeat_press_enabled : BOOLEAN,
                 repeat_fire_immediate : BOOLEAN,
                 repeat_override_long : BOOLEAN]
    /\ click = [last_press |-> 0,
                long_press_fired |-> FALSE,
                half_double_press_fired |-> FALSE,
                half_double_press |-> 0,
                pressed |-> FALSE]
    /\ removed = FALSE
    /\ repeat_timer = NoTimer
    /\ timers = {}
    /\ raf = TRUE
    /\ fired = <<>>
    /\ g = NewGesture
    /\ held = {}

\* new Undo(o) on a page whose localStorage holds no history yet
UndoStarts(o) ==
    LET c == constructor(o, EmptyStorage) IN
    /\ undo_opts = o
    /\ localStorage = EmptyStorage
    /\ stack = c.stack
    /\ current_index = c.current_index
    /\ returned = "undefined"
    /\ twin = [stack |-> c.stack, current_index |-> c.current_index,
                ret |-> "undefined"]

\* The page constructs its Input with the option flags it chooses (the
\* declared option repeat_press_enabled left at its default) and its Undo with
\* the default options
Init ==
    /\ InitInput
    /\ ~opts.repeat_press_enabled
    /\ UndoStarts(DefaultUndoOpts)
    /\ CommsStart

\* down()
Down ==
    /\ opts.repeat_enabled => Cardinality(timers) < MaxTimers
    /\ click' = press(click, now)
    /\ IF opts.repeat_enabled
       THEN /\ fired' = IF opts.repeat_fire_immediate THEN <<"single">> ELSE <<>>
            /\ timers' = setTimeout(timers, now, repeat_init_delay)
            /\ repeat_timer' = FreshId(timers)
       ELSE /\ fired' = <<>>
            /\ UNCHANGED <<timers, repeat_timer>>
    /\ g' = Track(g, "d", fired', opts, timers')
    /\ UNCHANGED <<now, opts, removed, raf, held, undoVars, commsVars>>

\* up()
Up ==
    LET r == release(click, opts, now, TRUE) IN
    /\ click' = r.click
    /\ fired' = r.fired
    /\ timers' = clearTimeout(timers, repeat_timer)
    /\ g' = Track(g, "u", fired', opts, timers')
    /\ UNCHANGED <<now, opts, removed, repeat_timer, raf, held, undoVars, commsVars>>

\* _listener_keydown(e) for the main key: down() unless already pressed
KeyDown ==
    /\ ~click.pressed
    /\ Down

\* _listener_keyup(e) for the main key
KeyUp == Up

\* _listener_mouseout(): the pointer left the control
MouseOut ==
    LET r == release(click, opts, now, FALSE) IN
    /\ click' = r.click
    /\ fired' = r.fired
    /\ g' = Track(g, "a", fired', opts, timers)
    /\ UNCHANGED <<now, opts, removed, repeat_timer, timers, raf, held, undoVars, commsVars>>

\* the animation frame callback: _press_check_loop()
AnimationFrame ==
    LET r == press_check_loop(click, opts, now) IN
    /\ raf
    /\ click' = r.click
    /\ fired' = r.fired
    /\ raf' = ~removed
    /\ g' = Track(g, "tick", fired', opts, timers)
    /\ UNCHANGED <<now, opts, removed, repeat_timer, timers, held, undoVars, commsVars>>

\* a repeat timer expires: _handle_repeat()
RepeatTimeout ==
    \E t \in timers :
        /\ now >= t.due
        /\ fired' = <<"single">>
        /\ timers' = setTimeout(timers \ {t}, now, repeat_interval)
        /\ repeat_timer' = FreshId(timers \ {t})
        /\ g' = Track(g, "timer", fired', opts, timers')
        /\ UNCHANGED <<now, opts, click, removed, raf, held, undoVars, commsVars>>

\* set_long_press(is_long_press), enable_long_press(), disable_long_press()
SetLongPress ==
    \E b \in BOOLEAN :
        /\ opts' = [opts EXCEPT !.long_press_enabled = b]
        /\ fired' = <<>>
        /\ g' = Track(g, "set", fired', opts', timers)
        /\ UNCHANGED <<now, click, removed, repeat_timer, timers, raf, held, undoVars, commsVars>>

\* set_repeat_press as it would be if switching repeat off cancelled the timer
SetRepeatPressCancels ==
    \E b \in BOOLEAN :
        /\ opts' = [opts EXCEPT !.repeat_enabled = b]
        /\ fired' = <<>>
        /\ timers' = IF b THEN timers ELSE clearTimeout(timers, repeat_timer)
        /\ g' = Track(g, "set", fired', opts', timers')
        /\ UNCHANGED <<now, click, removed, repeat_timer, raf, held, undoVars, commsVars>>

\* set_repeat_press(is_repeat_press), enable_repeat(), disable_repeat()
SetRepeatPress ==
    \E b \in BOOLEAN :
        /\ opts' = [opts EXCEPT !.repeat_enabled = b]
        /\ fired' = <<>>
        /\ g' = Track(g, "set", fired', opts', timers)
        /\ UNCHANGED <<now, click, removed, repeat_timer, timers, raf, held, undoVars, commsVars>>

\* remove()
Remove ==
    /\ removed' = TRUE
    /\ fired' = <<>>
    /\ UNCHANGED <<now, opts, click, repeat_timer, timers, raf, g, held, undoVars, commsVars>>

\* Time passes: by one of the steps of Deltas or up to the moment the next
\* timer is due.  A timer's callback runs when its delay has elapsed: time
\* does not pass an armed timer's due time.
Advance ==
    \E d \in Deltas \cup {t.due - now : t \in timers} :
        /\ d > 0
        /\ now + d <= MaxTime
        /\ \A t \in timers : now + d <= t.due
        /\ now' = now + d
        /\ fired' = <<>>
        /\ UNCHANGED <<opts, click, removed, repeat_timer, timers, raf, g, held, undoVars, commsVars>>

\* An instance with a keyboard key and a DOM element: the key presses and
\* releases it, the pointer may leave the element at any time
Next ==
    \/ KeyDown
    \/ KeyUp
    \/ MouseOut
    \/ AnimationFrame
    \/ RepeatTimeout
    \/ SetLongPress
    \/ SetRepeatPress
    \/ Advance

\* new Input(opts) with repeat_fire_immediate and repeat_override_long left at
\* their defaults
InitDefaults ==
    /\ Init
    /\ opts.repeat_fire_immediate
    /\ opts.repeat_override_long

Spec == InitDefaults /\ [][Next]_vars

\* An instance driven by its keyboard key alone (opts.key, no DOM element)
NextKey ==
    \/ KeyDown
    \/ KeyUp
    \/ AnimationFrame
    \/ RepeatTimeout
    \/ SetLongPress
    \/ SetRepeatPress
    \/ Advance

SpecKey == Init /\ [][NextKey]_vars

\* The listeners are attached from construction until remove() detaches them
Attached == ~removed

\* An instance with a keyboard key and a DOM element that may be removed:
\* after remove() no listener runs; the animation frame already requested and
\* the timers already armed still call back
NextRemove ==
    \/ Attached /\ KeyDown
    \/ Attached /\ KeyUp
    \/ Attached /\ MouseOut
    \/ AnimationFrame
    \/ RepeatTimeout
    \/ Remove
    \/ Advance

SpecRemove == InitDefaults /\ [][NextRemove]_vars

\* The moments of the timing scenario: release at 50 ms, then 121 ms, the
\* expiry of the double press threshold (150 ms) and the moments after it
Moments == {50, 121, 150, 151, 200}

\* Time passes to a later moment of the scenario
AdvanceTo ==
    \E m \in Moments :
        /\ m > now
        /\ \A t \in timers : m <= t.due
        /\ now' = m
        /\ fired' = <<>>
        /\ UNCHANGED <<opts, click, removed, repeat_timer, timers, raf, g, held, undoVars, commsVars>>

\* Time passes to a later moment of the scenario and the animation frame
\* callback runs at that moment: _press_check_loop() reading Date.now() = m
FrameAt ==
    \E m \in Moments :
        LET r == press_check_loop(click, opts, m) IN
        /\ m > now
        /\ \A t \in timers : m <= t.due
        /\ raf
        /\ now' = m
        /\ click' = r.click
        /\ fired' = r.fired
        /\ raf' = ~removed
        /\ g' = Track(g, "tick", fired', opts, timers)
        /\ UNCHANGED <<opts, removed, repeat_timer, timers, held, undoVars, commsVars>>

\* new Input(opts) with double press and long press enabled, repeat mode off
InitScenario ==
    /\ Init
    /\ opts.double_press_enabled
    /\ opts.long_press_enabled
    /\ ~opts.repeat_enabled

\* The key pressed and released at the moments of the scenario
NextScenario ==
    \/ KeyDown
    \/ KeyUp
    \/ FrameAt
    \/ AdvanceTo

SpecScenario == InitScenario /\ [][NextScenario]_vars

\* opts.discrete_keys: the keys mapped to "single", "double" and "long", each
\* named here by the type it is mapped to
DiscreteKeys == {"single", "double", "long"}

\* _listener_keydown_discrete(e) for a keydown event of discrete key k
KeyDownDiscrete(k) ==
    /\ fired' = <<k>>
    /\ g' = Track(g, "key", fired', opts, timers)
    /\ UNCHANGED <<now, opts, click, removed, repeat_timer, timers, raf, undoVars, commsVars>>

\* a discrete key goes down: the keyboard sends its first keydown event
PressDiscrete ==
    \E k \in DiscreteKeys \ held :
        /\ held' = held \cup {k}
        /\ KeyDownDiscrete(k)

\* a discrete key is still held: key auto-repeat sends another keydown event
AutoRepeatDiscrete ==
    \E k \in held :
        /\ held' = held
        /\ KeyDownDiscrete(k)

\* a discrete key goes up: no listener of the instance takes its keyup event
ReleaseDiscrete ==
    \E k \in held :
        /\ held' = held \ {k}
        /\ fired' = <<>>
        /\ UNCHANGED <<now, opts, click, removed, repeat_timer, timers, raf, g, undoVars, commsVars>>

\* An instance with a main key and discrete keys (opts.key, opts.discrete_keys)
NextDiscrete ==
    \/ PressDiscrete
    \/ AutoRepeatDiscrete
    \/ ReleaseDiscrete
    \/ KeyDown
    \/ KeyUp

SpecDiscrete == InitScenario /\ [][NextDiscrete]_vars

\* the types of press passed to opts.fire
PressTypes == {"single", "double", "long"}

\* fire(type) as it would be if it registered a press on its way to the
\* callback
FireThroughPress(type) ==
    /\ fired' = <<type>>
    /\ click' = press(click, now)
    /\ g' = Track(g, "fire", fired', opts, timers)
    /\ UNCHANGED <<now, opts, removed, repeat_timer, timers, raf, held, undoVars, commsVars>>

\* fire(type): the manual trigger
FireType(type) ==
    /\ fired' = <<type>>
    /\ g' = Track(g, "fire", fired', opts, timers)
    /\ UNCHANGED <<now, opts, click, removed, repeat_timer, timers, raf, held, undoVars, commsVars>>

Fire == \E type \in PressTypes : FireType(type)

\* An instance with a keyboard key whose owner also calls fire(type)
NextFire ==
    \/ Fire
    \/ KeyDown
    \/ KeyUp
    \/ AnimationFrame
    \/ RepeatTimeout
    \/ Advance

SpecFire == InitDefaults /\ [][NextFire]_vars

\* ---------------------------------------------------------------- Undo: state machine

\* the Undo instance and the localStorage as one record
Current ==
    [stack |-> stack, current_index |-> current_index,
     opts |-> undo_opts, localStorage |-> localStorage]

\* the twin as an instance of its own, with the same opts
Twin ==
    [stack |-> twin.stack, current_index |-> twin.current_index,
     opts |-> undo_opts, localStorage |-> EmptyStorage]

\* A call on the instance took effect: r is its outcome, tr the outcome of the
\* same call on the twin
Apply(r, tr) ==
    /\ stack' = r.u.stack
    /\ current_index' = r.u.current_index
    /\ localStorage' = r.u.localStorage
    /\ returned' = r.ret
    /\ twin' = [stack |-> tr.u.stack, current_index |-> tr.u.current_index,
                 ret |-> tr.ret]
    /\ UNCHANGED <<undo_opts, inputVars, commsVars>>

\* save(data)
Save ==
    \E data \in Data :
        /\ Len(stack) < MaxStack
        /\ Apply(save(Current, data), save(Twin, data))

\* undo()
Undo == Apply(undo(Current), undo(Twin))

\* undoundo()
UndoUndo == Apply(undoundo(Current), undoundo(Twin))

\* overwrite(data)
Overwrite == \E data \in Data : Apply(overwrite(Current, data), overwrite(Twin, data))

\* retrieve()
Retrieve == Apply(retrieve(Current), retrieve(Twin))

\* The page is reloaded: its script runs new Undo(opts) again, with the
\* localStorage the previous instance left.  An instance that is not rebuilt
\* from localStorage starts afresh, and so does its twin.
Reload ==
    LET c == constructor(undo_opts, localStorage) IN
    /\ stack' = c.stack
    /\ current_index' = c.current_index
    /\ twin' = IF undo_opts.save_to_storage /\ localStorage.has_items
               THEN twin
               ELSE [stack |-> c.stack, current_index |-> c.current_index,
                     ret |-> returned]
    /\ UNCHANGED <<undo_opts, localStorage, returned, inputVars, commsVars>>

\* new Undo(opts) with any of the opts, beside an Input with default options
InitUndo ==
    /\ InitInput
    /\ opts = [long_press_enabled |-> TRUE, double_press_enabled |-> TRUE,
               repeat_enabled |-> FALSE, repeat_press_enabled |-> FALSE,
               repeat_fire_immediate |-> TRUE,
               repeat_override_long |-> TRUE]
    /\ \E o \in UndoOpts : UndoStarts(o)
    /\ CommsStart

NextUndo ==
    \/ Save
    \/ Undo
    \/ UndoUndo
    \/ Overwrite
    \/ Retrieve
    \/ Reload

SpecUndo == InitUndo /\ [][NextUndo]_vars

\* new Undo(opts) with no history provided, used without a reload
InitUndoFresh ==
    /\ InitUndo
    /\ ~undo_opts.has_stack

NextUndoFresh ==
    \/ Save
    \/ Undo
    \/ UndoUndo
    \/ Overwrite
    \/ Retrieve

SpecUndoFresh == InitUndoFresh /\ [][NextUndoFresh]_vars

\* _listener_keydown(e) as it would be without the test of _click.pressed
KeydownUnguarded == Down

\* _listener_keydown(e) for any keydown event of the main key, the events of
\* key auto-repeat included: down() if not pressed, nothing otherwise
ListenerKeydown ==
    IF ~click.pressed
    THEN Down
    ELSE /\ fired' = <<>>
         /\ UNCHANGED <<now, opts, click, removed, repeat_timer, timers, raf, g,
                         held, undoVars, commsVars>>

\* An instance driven by a keyboard key that auto-repeats while held
NextAutoRepeat ==
    \/ ListenerKeydown
    \/ KeyUp
    \/ AnimationFrame
    \/ RepeatTimeout
    \/ Advance

SpecAutoRepeat == Init /\ [][NextAutoRepeat]_vars

\* new Input(opts) with declared options only: repeat_press_enabled as the
\* page likes, no opts.repeat_enabled (undefined), repeat_fire_immediate and
\* repeat_override_long at their defaults
InitDeclared ==
    /\ InitInput
    /\ ~opts.repeat_enabled
    /\ opts.repeat_fire_immediate
    /\ opts.repeat_override_long
    /\ UndoStarts(DefaultUndoOpts)
    /\ CommsStart

SpecDeclared == InitDeclared /\ [][NextKey]_vars

\* ---------------------------------------------------------------- Serial: state machine

\* connect(): the port opens and outputDone and outputStream are set
Connect ==
    /\ ~serial.outputDone
    /\ serial' = [serial EXCEPT !.outputDone = TRUE]
    /\ UNCHANGED <<date, calls, send_ret, lineVars, bleVars, inputVars, undoVars>>

\* The page calls send(line) with its next line
Send ==
    /\ Len(calls) < MaxLines
    /\ LET line == Len(calls) + 1
           r == send(serial, line, date)
       IN  /\ serial' = r.serial
           /\ send_ret' = r.ret
           /\ calls' = IF serial.outputDone THEN Append(calls, line) ELSE calls
    /\ UNCHANGED <<date, lineVars, bleVars, inputVars, undoVars>>

\* The timer of a deferred line fires, at or after its due time, and calls
\* send(line) again
SendAgain ==
    \E tm \in serial.timers :
        /\ date >= tm.due
        /\ serial' = send([serial EXCEPT !.timers = @ \ {tm}], tm.line, date).serial
        /\ UNCHANGED <<date, calls, send_ret, lineVars, bleVars, inputVars, undoVars>>

\* Time passes on the page of the Serial instance
SerialAdvance ==
    \E d \in SerialDeltas :
        /\ date + d <= MaxDate
        /\ date' = date + d
        /\ UNCHANGED <<serial, calls, send_ret, lineVars, bleVars, inputVars, undoVars>>

\* new Serial() beside an Input and an Undo with default options
InitSerial ==
    /\ InitUndo
    /\ undo_opts = DefaultUndoOpts

NextSerial ==
    \/ Connect
    \/ Send
    \/ SendAgain
    \/ SerialAdvance

SpecSerial == InitSerial /\ [][NextSerial]_vars

\* ---------------------------------------------------------------- LineBreakTransformer: state machine

\* The stream delivers the next chunk of the text, of any length, to
\* transform(chunk, controller)
Transform ==
    /\ ~flushed
    /\ \E k \in 1..Len(rest) :
           /\ lbt' = transform(lbt, SubSeq(rest, 1, k))
           /\ chunks' = Append(chunks, SubSeq(rest, 1, k))
           /\ rest' = SubSeq(rest, k + 1, Len(rest))
    /\ UNCHANGED <<text, flushed, serialVars, bleVars, inputVars, undoVars>>

\* The stream closes after the last chunk and calls flush(controller)
Flush ==
    /\ ~flushed
    /\ rest = <<>>
    /\ lbt' = flush(lbt)
    /\ flushed' = TRUE
    /\ UNCHANGED <<text, rest, chunks, serialVars, bleVars, inputVars, undoVars>>

\* new LineBreakTransformer(split_chars) on a stream that will deliver any of
\* the texts, beside an Input, an Undo, a Serial and a BLE instance with
\* default options
InitTransformer ==
    /\ InitInput
    /\ opts = [long_press_enabled |-> TRUE, double_press_enabled |-> TRUE,
               repeat_enabled |-> FALSE, repeat_press_enabled |-> FALSE,
               repeat_fire_immediate |-> TRUE,
               repeat_override_long |-> TRUE]
    /\ UndoStarts(DefaultUndoOpts)
    /\ SerialStarts
    /\ \E t \in Texts, split_chars \in SplitChars : TransformerStarts(t, split_chars)
    /\ BLEStarts(msg_send_chunk_size)

NextTransformer ==
    \/ Transform
    \/ Flush

SpecTransformer == InitTransformer /\ [][NextTransformer]_vars

\* ---------------------------------------------------------------- BLE: state machine

\* send(msg) or sendBytes(byteArray) on a connected device, with a message of
\* any of the lengths: _sendNextChunk(value_array)
BleSend ==
    /\ Len(ble_sent) < MaxMsgs
    /\ \E len \in Lengths :
           LET k == Len(ble_sent) + 1 IN
           /\ ble' = sendNextChunk(ble, [msg |-> k, value_array |-> Bytes(k, len)])
           /\ ble_sent' = Append(ble_sent, Bytes(k, len))
    /\ ble_failed' = (ble_failed \/ ble.writing # <<>>)
    /\ UNCHANGED <<ble_log, serialVars, lineVars, inputVars, undoVars>>

\* The characteristic write in progress succeeds: the chunk has been written
\* and _sendNextChunk goes on after its await
WriteResolves ==
    /\ ble.writing # <<>>
    /\ ble_log' = Append(ble_log, [msg |-> ble.writing[1].msg, chunk |-> chunk(ble)])
    /\ ble' = sendNextChunk_resumes(ble)
    /\ UNCHANGED <<ble_sent, ble_failed, serialVars, lineVars, inputVars, undoVars>>

\* The characteristic write in progress is rejected: _sendNextChunk goes to
\* its catch block
WriteRejects ==
    /\ ble.writing # <<>>
    /\ ble' = sendNextChunk_catches(ble)
    /\ ble_failed' = TRUE
    /\ UNCHANGED <<ble_log, ble_sent, serialVars, lineVars, inputVars, undoVars>>

\* new BLEComms(options) with any of the chunk sizes, connected, beside an
\* Input, an Undo and a Serial instance with default options
InitBLE ==
    /\ InitInput
    /\ opts = [long_press_enabled |-> TRUE, double_press_enabled |-> TRUE,
               repeat_enabled |-> FALSE, repeat_press_enabled |-> FALSE,
               repeat_fire_immediate |-> TRUE,
               repeat_override_long |-> TRUE]
    /\ UndoStarts(DefaultUndoOpts)
    /\ SerialStarts
    /\ TransformerStarts(<<>>, <<"\r", "\n">>)
    /\ \E size \in ChunkSizes : BLEStarts(size)

NextBLE ==
    \/ BleSend
    \/ WriteResolves
    \/ WriteRejects

SpecBLE == InitBLE /\ [][NextBLE]_vars

\* ---------------------------------------------------------------- claims

OneShortPress == <<"d", "u">>
TwoPresses == <<"d", "u", "d", "u">>

\* C1: with double press and repeat disabled, a down() followed by an up()
\* before long_press_threshold has elapsed emits exactly one "single" and no
\* other event, whatever calls came before the down().
C1_ShortPressEmitsOneSingle ==
    (/\ g.ops = OneShortPress
     /\ ~g.repeat
     /\ ~opts.double_press_enabled
     /\ now < click.last_press + long_press_threshold)
    => (g.single = 1 /\ g.double = 0 /\ g.long = 0)

\* C2: with repeat disabled and any double press setting, a hold for which the
\* check loop has fired the long press emits exactly one "long" and nothing
\* else, neither at its up() nor from a later run of the check loop.
C2_LongHoldEmitsOnlyLong ==
    (/\ g.ops \in {<<"d">>, OneShortPress}
     /\ ~g.repeat
     /\ (g.long >= 1 \/ (click.pressed /\ click.long_press_fired)))
    => (g.long = 1 /\ g.single = 0 /\ g.double = 0)

\* the second down() of a recorded pair came no later than
\* double_press_threshold after the first up()
SecondPressInTime ==
    click.last_press <= click.half_double_press + double_press_threshold

\* C3 as stated, for any repeat setting: with double press enabled, down(),
\* up(), down(), up() with the second down() within double_press_threshold of
\* the first up() emits exactly one "double" and no "single".
C3_PairEmitsOneDouble_AnyRepeat ==
    (/\ g.ops = TwoPresses
     /\ opts.double_press_enabled
     /\ SecondPressInTime)
    => (g.double = 1 /\ g.single = 0)

\* C3, amended: the same with repeat mode off and no repeat timer armed during
\* the four calls.  Until double_press_threshold has elapsed after the first
\* up() the first half stays pending and no run of the check loop emits for it;
\* the second up() then emits the one "double", and no "single" is emitted.
C3_PairEmitsOneDouble ==
    /\ (/\ g.ops = TwoPresses
        /\ ~g.repeat
        /\ opts.double_press_enabled
        /\ SecondPressInTime)
       => (g.double = 1 /\ g.single = 0)
    /\ (/\ g.ops = OneShortPress
        /\ ~g.repeat
        /\ opts.double_press_enabled
        /\ now <= click.half_double_press + double_press_threshold)
       => (click.half_double_press_fired /\ g.double = 0 /\ g.single = 0)

\* C3's case: a pair whose second press began 100 ms after the first release,
\* taken as one double
C3_Witness ==
    /\ g.ops = TwoPresses
    /\ ~g.repeat
    /\ opts.double_press_enabled
    /\ SecondPressInTime
    /\ click.last_press > click.half_double_press
    /\ g.double = 1
    /\ g.single = 0

\* one down()/up() with no second down() after it, double press enabled
LonePress(gg) == gg.ops = OneShortPress /\ opts.double_press_enabled

\* C4 as stated, for any repeat setting: with double press enabled, one
\* down()/up() with no second down() has emitted exactly one "single" once the
\* check loop has given up on it.
C4_LonePressEmitsOneSingle_AnyRepeat ==
    (LonePress(g) /\ ~click.half_double_press_fired)
    => (g.single = 1 /\ g.double = 0)

\* C4, amended: the same with repeat mode off and no repeat timer armed.  A
\* run of the check loop after double_press_threshold has elapsed since the
\* up() emits the "single"; with that the gesture has emitted exactly one,
\* and every other run of the check loop emits nothing.
C4_LonePressEmitsOneSingle ==
    [][/\ (LonePress(g') /\ ~g'.repeat)
            => (/\ g'.single = (IF click'.half_double_press_fired THEN 0 ELSE 1)
                /\ g'.double = 0)
       /\ (AnimationFrame /\ LonePress(g) /\ ~g'.repeat)
            => (fired' = IF /\ click.half_double_press_fired
                            /\ now > click.half_double_press + double_press_threshold
                         THEN <<"single">> ELSE <<>>)]_vars

\* C4's case: the lone press resolved to its one "single" after the threshold
C4_Witness ==
    /\ LonePress(g)
    /\ ~g.repeat
    /\ ~click.half_double_press_fired
    /\ now > click.half_double_press + double_press_threshold
    /\ fired = <<"single">>
    /\ g.single = 1

\* C5: with repeat disabled, a gesture of one press, or of two presses taken
\* as a double, that is resolved (released, nothing pending) has emitted
\* exactly one event.
C5_OneEventPerGesture ==
    (/\ g.ops \in {OneShortPress, TwoPresses}
     /\ ~g.repeat
     /\ ~click.pressed
     /\ ~click.half_double_press_fired)
    => (g.single + g.double + g.long = 1)

\* C6: up() while not pressed emits nothing and leaves the click state as it
\* was (so that no later run of the check loop emits for it either).
C6_SpuriousUpIsNoOp ==
    [][(KeyUp /\ ~click.pressed) => (fired' = <<>> /\ click' = click)]_vars

\* C7: an abandoned release emits nothing and leaves pressed and
\* long_press_fired false, whatever the state before it.
C7_AbandonedReleaseClears ==
    [][MouseOut => (/\ fired' = <<>>
                    /\ ~click'.pressed
                    /\ ~click'.long_press_fired)]_vars

\* C8: at most one repeat timer is armed.
C8_AtMostOneRepeatTimer == Cardinality(timers) <= 1

\* C9: no repeat timer fires between an up() and the next down().
C9_NoRepeatAfterUp ==
    [][RepeatTimeout => g.ops \notin {OneShortPress, TwoPresses}]_vars

\* C10: with repeat enabled and repeat_fire_immediate, down() emits "single"
\* at once, and while the button is held no repeat timer fires before
\* repeat_init_delay has elapsed since that down().
C10_RepeatSchedule ==
    [][/\ (Down /\ opts.repeat_enabled /\ opts.repeat_fire_immediate)
            => fired' = <<"single">>
       /\ (RepeatTimeout /\ click.pressed /\ opts.repeat_enabled
                /\ opts.repeat_fire_immediate)
            => now >= click.last_press + repeat_init_delay]_vars

\* C11: an abandoned release during a hold with repeat enabled cancels the
\* armed repeat timer: no timer is armed after it.
C11_AbandonedReleaseCancelsTimer ==
    [][(MouseOut /\ click.pressed /\ opts.repeat_enabled) => timers' = {}]_vars

\* C12: long_press_fired is false whenever pressed is false.
C12_LongFiredOnlyWhilePressed == ~click.pressed => ~click.long_press_fired

\* C13: one continuous hold emits at most one "long".  A "long" is emitted
\* only by a run of the check loop that finds the button pressed and
\* long_press_fired false and sets it, and long_press_fired stays true for as
\* long as the button stays pressed, however many runs of the check loop follow.
C13_AtMostOneLongPerHold ==
    [][/\ Has(fired', "long")
            => (/\ AnimationFrame
                /\ click.pressed
                /\ ~click.long_press_fired
                /\ click'.long_press_fired)
       /\ (click.pressed /\ click.long_press_fired /\ click'.pressed)
            => click'.long_press_fired
       /\ (click.pressed /\ click'.pressed /\ g.long >= 1 /\ g.ops = <<"d">>)
            => g'.long = 1]_vars

\* C13's case: the hold emitted its "long" in an earlier step, and more than
\* 100 ms beyond the threshold have passed with the button still held
C13_Witness ==
    /\ fired = <<>>
    /\ g.ops = <<"d">>
    /\ click.pressed
    /\ click.long_press_fired
    /\ g.long = 1
    /\ now > click.last_press + long_press_threshold + double_press_threshold

\* C14: once remove() has been called no repeat timer is armed, no run of the
\* check loop and no timer emits an event, and a further remove() changes
\* nothing.
C14_NothingAfterRemove ==
    [][/\ removed' => timers' = {}
       /\ removed => fired' = <<>>
       /\ (Remove /\ removed) => UNCHANGED <<opts, click, removed, timers, raf>>]_vars

\* C15: with repeat_override_long, one hold never emits both a repeat-timer
\* "single" and a "long": no repeat timer fires in a hold that has emitted
\* "long", no "long" is emitted in a hold whose repeat timer has fired (the
\* armed timer is then no longer the one down() armed), and a run of the check
\* loop with repeat enabled emits no "long".
C15_RepeatExcludesLong ==
    [][/\ (RepeatTimeout /\ click.pressed /\ g.ops = <<"d">>
                /\ opts.repeat_override_long)
            => g.long = 0
       /\ (Has(fired', "long") /\ g.ops = <<"d">> /\ opts.repeat_override_long)
            => \A t \in timers : t.due = click.last_press + repeat_init_delay
       /\ (AnimationFrame /\ opts.repeat_enabled /\ opts.repeat_override_long)
            => ~Has(fired', "long")]_vars

\* C16: with double press disabled, a hold released before long_press_threshold
\* has elapsed has emitted exactly one "single" (at its down() or at its up())
\* and no "long", also when repeat mode was switched between down() and up().
C16_OneSinglePerShortHold ==
    (/\ g.ops = OneShortPress
     /\ ~opts.double_press_enabled
     /\ ~click.pressed
     /\ now < click.last_press + long_press_threshold)
    => (g.single = 1 /\ g.long = 0)

\* C17: with double press enabled, the up() of a hold whose long press has
\* already fired neither emits "double" nor marks a half double press pending.
C17_LongHoldIsNoHalfDouble ==
    [][(/\ KeyUp
        /\ click.pressed
        /\ click.long_press_fired
        /\ opts.double_press_enabled)
       => (/\ ~Has(fired', "double")
           /\ click'.half_double_press_fired => click.half_double_press_fired)]_vars

\* C18: the second up() of down(), up(), down(), up() emits "double" only if
\* the second down() came no later than double_press_threshold after the first
\* up(), no matter when the check loop ran in between.
C18_DoubleOnlyWithinThreshold ==
    [][(KeyUp /\ Has(fired', "double") /\ g'.ops = TwoPresses)
       => click.last_press <= click.half_double_press + double_press_threshold]_vars

\* down() at 0 ms and up() at 50 ms have been called and nothing since but
\* runs of the check loop: a half double press is pending since 50 ms
HalfPendingAt50 ==
    /\ g.ops = OneShortPress
    /\ click.last_press = 0
    /\ click.half_double_press = 50
    /\ click.half_double_press_fired
    /\ ~click.pressed

\* C19 as stated: after down() at 0 ms and up() at 50 ms, a run of the check
\* loop at 121 ms emits "single" for the first half and clears the pending
\* flag.
C19_TickAt121Resolves ==
    [][(FrameAt /\ HalfPendingAt50 /\ now' = 121)
       => (fired' = <<"single">> /\ ~click'.half_double_press_fired)]_vars

\* C19, amended: the run of the check loop that resolves the first half is one
\* later than 150 ms (50 ms + double_press_threshold): it emits "single" and
\* clears the pending flag, a run at 150 ms or earlier (121 ms) emits nothing
\* and leaves the half pending, and an up() that finds no half pending (the
\* up() of the next down()) emits no "double".
C19_TickAfterThresholdResolves ==
    [][/\ (FrameAt /\ HalfPendingAt50 /\ now' > 50 + double_press_threshold)
            => (fired' = <<"single">> /\ ~click'.half_double_press_fired)
       /\ (FrameAt /\ HalfPendingAt50 /\ now' <= 50 + double_press_threshold)
            => (fired' = <<>> /\ click'.half_double_press_fired)
       /\ (KeyUp /\ ~click.half_double_press_fired)
            => ~Has(fired', "double")]_vars

\* C19's case: the check loop ran at 151 ms and resolved the first half
C19_Witness ==
    /\ g.ops = OneShortPress
    /\ click.last_press = 0
    /\ click.half_double_press = 50
    /\ ~click.half_double_press_fired
    /\ now = 151
    /\ fired = <<"single">>
    /\ g.single = 1

\* C20: a discrete key emits its type at its physical key-down edge, and the
\* keydown events key auto-repeat sends while it is held emit nothing.
C20_DiscreteOncePerEdge ==
    [][/\ PressDiscrete => (Len(fired') = 1 /\ fired'[1] \in held' \ held)
       /\ AutoRepeatDiscrete => fired' = <<>>]_vars

\* C21: fire(type) passes exactly the given type to the callback, once, and
\* leaves every field of _click, the option flags and the repeat timer as
\* they were, in any state.
C21_FireOnlyInvokesCallback ==
    [][\A type \in PressTypes :
          FireType(type) => (/\ fired' = <<type>>
                             /\ click' = click
                             /\ opts' = opts
                             /\ timers' = timers
                             /\ repeat_timer' = repeat_timer
                             /\ removed' = removed)]_vars

\* C21's case: fire("double") was called on an instance that has double press
\* disabled, while the button was held with a repeat timer armed
C21_Witness ==
    /\ fired = <<"double">>
    /\ ~opts.double_press_enabled
    /\ click.pressed
    /\ timers # {}

\* the position as a number
Position == ToNumber(current_index)

\* C22: undo() called at a position after the first moves the position back by
\* one, leaves the stack as it is and returns the entry at the new position;
\* called at the first entry, or with no entry current, it returns false and
\* changes neither the stack nor the position.
C22_UndoStepsBackOne ==
    LET r == undo(Current) IN
    IF Position > 0
    THEN /\ ToNumber(r.u.current_index) = Position - 1
         /\ r.u.stack = stack
         /\ Position \in DOMAIN stack
         /\ r.ret = stack[Position]
    ELSE /\ r.ret = "false"
         /\ r.u = Current

\* C22's case: undo() has just stepped back from the last of three entries
C22_Witness ==
    /\ Len(stack) = 3
    /\ Position = 1
    /\ returned = stack[2]
    /\ undo(Current).ret = stack[1]

\* C23: when undo() succeeds, undoundo() right after it returns the entry that
\* was current before and restores the position; when undoundo() succeeds,
\* undo() right after it does the same; neither changes the stack.
C23_UndoRoundTrip ==
    /\ LET r == undo(Current) IN
       r.ret # "false"
       => LET back == undoundo(r.u) IN
          /\ back.ret = At(stack, current_index)
          /\ ToNumber(back.u.current_index) = Position
          /\ back.u.stack = stack
    /\ LET r == undoundo(Current) IN
       r.ret # "false"
       => LET back == undo(r.u) IN
          /\ back.ret = At(stack, current_index)
          /\ ToNumber(back.u.current_index) = Position
          /\ back.u.stack = stack

\* C24: overwrite(data) on a history with entries leaves the length of the
\* stack and the position as they are and puts data at the position, the
\* other entries untouched; on an empty history it leaves exactly the one
\* entry data, at position 0.
C24_OverwriteInPlace ==
    \A data \in Data :
        LET r == overwrite(Current, data) IN
        IF Len(stack) > 0
        THEN /\ Len(r.u.stack) = Len(stack)
             /\ ToNumber(r.u.current_index) = Position
             /\ \A k \in DOMAIN stack :
                    r.u.stack[k] = IF k = Position + 1 THEN data ELSE stack[k]
        ELSE /\ r.u.stack = <<data>>
             /\ ToNumber(r.u.current_index) = 0

\* C25: has_undo().undo is true exactly when undo() would step back, and
\* has_undo().undoundo exactly when undoundo() would step forward.
C25_HasUndoTellsTheTruth ==
    /\ has_undo(Current).undo
         <=> (ToNumber(undo(Current).u.current_index) = Position - 1)
    /\ has_undo(Current).undoundo
         <=> (ToNumber(undoundo(Current).u.current_index) = Position + 1)

\* C25's case: in the middle of the history both are possible
C25_Witness ==
    /\ has_undo(Current).undo
    /\ has_undo(Current).undoundo
    /\ undo(Current).ret \in Data
    /\ undoundo(Current).ret \in Data

\* C26: with save_to_storage, an instance rebuilt from localStorage goes on as
\* the instance before the reload would have: after any calls the stack, the
\* position and the value returned are those of the twin.
C26_ReloadPreservesHistory ==
    undo_opts.save_to_storage
    => (/\ stack = twin.stack
        /\ Position = ToNumber(twin.current_index)
        /\ returned = twin.ret)

\* C27: save(data) called at a position before the end discards every entry
\* after the position: the stack is then the entries up to the position
\* followed by data, data is the last and the current entry, retrieve()
\* returns it and undoundo() returns false.
C27_SaveDiscardsRedo ==
    \A data \in Data :
        (Position < Len(stack) - 1 /\ Position >= -1)
        => LET r == save(Current, data) IN
           /\ r.u.stack = Append(SubSeq(stack, 1, Position + 1), data)
           /\ ToNumber(r.u.current_index) = Len(r.u.stack) - 1
           /\ retrieve(r.u).ret = data
           /\ undoundo(r.u).ret = "false"

\* C28: for an instance created with no provided stack and empty storage, the
\* position is a number from -1 to the length of the stack less one, and it is
\* -1 exactly when the stack is empty.
C28_PositionWithinStack ==
    /\ current_index.type = "number"
    /\ Position >= -1
    /\ Position <= Len(stack) - 1
    /\ (Position = -1) <=> (stack = <<>>)

\* C28's case: the position went back to the first of three entries
C28_Witness ==
    /\ Len(stack) = 3
    /\ Position = 0
    /\ returned = stack[1]

\* the condition under which the check loop gives up on a half double press
GiveUpDue ==
    /\ ~click.pressed
    /\ opts.double_press_enabled
    /\ click.half_double_press_fired
    /\ now > click.half_double_press + double_press_threshold

\* C29: a run of the check loop emits "single" and clears the pending flag
\* exactly when the button is not pressed, double press is enabled, a half
\* double press is pending and more than double_press_threshold has passed
\* since it was marked; any other run (one at exactly the threshold, one while
\* pressed) emits no "single" and leaves the flag as it is.
C29_GiveUpExactlyWhenDue ==
    [][AnimationFrame
       => /\ Has(fired', "single") <=> GiveUpDue
          /\ GiveUpDue => ~click'.half_double_press_fired
          /\ ~GiveUpDue => (click'.half_double_press_fired
                                = click.half_double_press_fired)]_vars

\* C29's case: exactly double_press_threshold after the up() of a lone press
\* the half is still pending and nothing has been emitted
C29_Witness ==
    /\ g.ops = OneShortPress
    /\ opts.double_press_enabled
    /\ ~click.pressed
    /\ click.half_double_press_fired
    /\ now = click.half_double_press + double_press_threshold
    /\ raf
    /\ press_check_loop(click, opts, now).fired = <<>>

\* C30: a run of the check loop emits at most one event, and a second run
\* right after it at the same time emits nothing and leaves _click as the
\* first run left it.
C30_TickIdempotent ==
    LET first == press_check_loop(click, opts, now)
        second == press_check_loop(first.click, opts, now)
    IN /\ Len(first.fired) <= 1
       /\ second.fired = <<>>
       /\ second.click = first.click

\* C30's case: the long press is due and the half double press of an earlier
\* press is still marked, and the run of the check loop emits just the "long"
C30_Witness ==
    /\ click.pressed
    /\ click.half_double_press_fired
    /\ opts.double_press_enabled
    /\ now > click.half_double_press + double_press_threshold
    /\ press_check_loop(click, opts, now).fired = <<"long">>

\* C31: a keydown event of the main key that arrives while pressed does not
\* call down(): it leaves _click (last_press included) and the timers as they
\* are and emits nothing; and a run of the check loop that finds the key held
\* for more than long_press_threshold since its one down(), with the long
\* press enabled, not yet fired and not overridden by repeat, emits "long".
C31_AutoRepeatKeydownIgnored ==
    [][/\ (ListenerKeydown /\ click.pressed)
            => (/\ fired' = <<>>
                /\ click' = click
                /\ timers' = timers
                /\ repeat_timer' = repeat_timer)
       /\ (/\ AnimationFrame
           /\ click.pressed
           /\ now > click.last_press + long_press_threshold
           /\ ~click.long_press_fired
           /\ opts.long_press_enabled
           /\ ~(opts.repeat_enabled /\ opts.repeat_override_long))
            => fired' = <<"long">>]_vars

\* C31's case: the key went down with repeat mode on, a keydown event arrived
\* while it was held, and down() has still run only once: one "single", one
\* timer, last_press as it was
C31_Witness ==
    /\ g.ops = <<"d">>
    /\ click.pressed
    /\ opts.repeat_enabled
    /\ now = click.last_press
    /\ fired = <<>>
    /\ g.single = 1
    /\ Cardinality(timers) = 1

\* C32: set_long_press and set_repeat_press change their one option flag and
\* nothing else: they emit nothing and leave _click and the timers as they
\* are.  A repeat timer armed before repeat was switched off still emits
\* "single" and re-arms itself, and the up() of the hold clears it.
C32_MutatorsOnlySetTheFlag ==
    [][/\ SetLongPress
            => (/\ fired' = <<>>
                /\ click' = click
                /\ timers' = timers
                /\ repeat_timer' = repeat_timer
                /\ opts' = [opts EXCEPT !.long_press_enabled =
                                            opts'.long_press_enabled])
       /\ SetRepeatPress
            => (/\ fired' = <<>>
                /\ click' = click
                /\ timers' = timers
                /\ repeat_timer' = repeat_timer
                /\ opts' = [opts EXCEPT !.repeat_enabled = opts'.repeat_enabled])
       /\ (RepeatTimeout /\ ~opts.repeat_enabled)
            => (fired' = <<"single">> /\ timers' # {})
       /\ KeyUp => timers' = {}]_vars

\* C32's case: repeat was switched off during a hold and the timer armed at
\* its down() has fired all the same
C32_Witness ==
    /\ g.ops = <<"d">>
    /\ click.pressed
    /\ ~opts.repeat_enabled
    /\ now >= click.last_press + repeat_init_delay
    /\ fired = <<"single">>
    /\ timers # {}

\* C33: with repeat enabled, a hold ended by up() and resolved (no half
\* double press pending) has emitted at least one event, whatever the other
\* option flags and however long the hold.
C33_RepeatHoldEmits ==
    (/\ g.ops = OneShortPress
     /\ opts.repeat_enabled
     /\ ~click.pressed
     /\ ~click.half_double_press_fired)
    => g.single + g.double + g.long >= 1

\* C34: on an instance constructed with repeat_press_enabled, down() arms the
\* repeat timer and, with repeat_fire_immediate, emits "single" at once.
C34_DeclaredOptionEnablesRepeat ==
    [][(Down /\ opts.repeat_press_enabled)
       => (/\ timers' # timers
           /\ opts.repeat_fire_immediate => fired' = <<"single">>)]_vars

\* C35: on a Serial instance, any two consecutive writes to the output stream
\* are more than minimumWriteInterval milliseconds apart, whatever the sequence
\* and timing of the send() calls, and a line whose send() came too early is
\* deferred, not dropped: every line taken by send() has been written once or
\* waits on one retry timer.
C35_WritesSpacedAndDeferred ==
    /\ \A i \in 1..(Len(serial.written) - 1) :
           serial.written[i + 1].at > serial.written[i].at + minimumWriteInterval
    /\ \A l \in 1..Len(calls) :
           Cardinality({i \in 1..Len(serial.written) : serial.written[i].line = l})
           + Cardinality({tm \in serial.timers : tm.line = l}) = 1

\* the second line was sent too early, deferred, and has been written since
C35_Witness ==
    /\ calls = <<1, 2>>
    /\ send_ret = "promise"
    /\ serial.timers = {}
    /\ Len(serial.written) = 2
    /\ serial.written[2].line = 2
    /\ serial.written[2].at < serial.written[1].at + 2 * minimumWriteInterval + 2

\* C36: on a connected Serial instance the lines are written to the output
\* stream in the order in which send() was called, deferred lines included.
C36_WrittenInCallOrder ==
    \A i, j \in 1..Len(serial.written) :
        i < j => serial.written[i].line < serial.written[j].line

\* C37: the framing of LineBreakTransformer does not depend on the chunk
\* boundaries: however the text is cut into chunks, inside the line ending
\* included, the lines enqueued by transform() over all the chunks and then by
\* flush() are the text split on the configured line ending.
C37_FramingIgnoresChunking ==
    flushed => lbt.enqueued = split(text, lbt.split_chars)

\* a\r\na delivered as a\r and \na, framed and flushed
C37_Witness ==
    /\ flushed
    /\ chunks = << <<"a", "\r">>, <<"\n", "a">> >>
    /\ lbt.split_chars = <<"\r", "\n">>
    /\ lbt.enqueued = << <<"a">>, <<"a">> >>

\* The positions in the log of the chunks of message k, and the chunks
ChunkPositions(k) == {i \in 1..Len(ble_log) : ble_log[i].msg = k}
ChunksOf(k) == SelectSeq(ble_log, LAMBDA r : r.msg = k)

RECURSIVE Concat(_)
Concat(cs) == IF cs = <<>> THEN <<>> ELSE Head(cs).chunk \o Concat(Tail(cs))

\* Message k is not being written any more
Written(k) == ble.writing = <<>> \/ ble.writing[1].msg # k

\* max(1, ceil(len / size))
Writes(len, size) ==
    IF len = 0 THEN 1 ELSE (len + size - 1) \div size

\* C38: as long as every characteristic write succeeds, _sendNextChunk writes
\* a message of length L as consecutive chunks of at most msg_send_chunk_size
\* bytes each, in order, whose concatenation is the message, in
\* max(1, ceil(L / msg_send_chunk_size)) writes: no trailing empty chunk when L
\* is an exact multiple of the chunk size.
C38_ChunksMakeTheMessage ==
    ~ble_failed =>
        \A k \in 1..Len(ble_sent) :
            /\ \A i \in ChunkPositions(k) :
                   Len(ble_log[i].chunk) <= ble.msg_send_chunk_size
            /\ \A i, j \in ChunkPositions(k) :
                   \A m \in i..j : m \in ChunkPositions(k)
            /\ Concat(ChunksOf(k))
                   = SubSeq(ble_sent[k], 1, Len(Concat(ChunksOf(k))))
            /\ Written(k) =>
                   /\ Concat(ChunksOf(k)) = ble_sent[k]
                   /\ Len(ChunksOf(k))
                          = Writes(Len(ble_sent[k]), ble.msg_send_chunk_size)

\* a message of exactly two chunks of the default size, written in two writes,
\* then a second, empty message written in one
C38_Witness ==
    /\ ~ble_failed
    /\ ble.msg_send_chunk_size = msg_send_chunk_size
    /\ Len(ble_sent) = 2
    /\ Len(ble_sent[1]) = 2 * msg_send_chunk_size
    /\ ble_sent[2] = <<>>
    /\ ble.writing = <<>>
    /\ Len(ble_log) = 3

====
